---- MODULE Spec2Model ----
(***************************************************************************)
(* Query history store and query router of the Market-Researcher           *)
(* repository.                                                             *)
(*                                                                         *)
(* The repository carries two implementations of the store:                *)
(*   - src/Database/mongodb.py : a MongoDB collection, ids are random      *)
(*     three-digit numbers found by probing (find_one) before insert_one;  *)
(*   - src/api/database.py     : a SQLite table with an AUTOINCREMENT key. *)
(* A deployment uses one of them; the variable backend says which.         *)
(* It also carries two routers:                                            *)
(*   - src/supervisor/supervisor.py : supervisor_agent, one function that  *)
(*     classifies the query and calls one responder of src/agents/;        *)
(*   - src/multi_agent_system.py    : a LangGraph workflow of a supervisor *)
(*     node and three agent nodes, run by run_agent_system.                *)
(* POST /query of src/api/routes.py calls supervisor_agent and saves its   *)
(* result in the SQLite store.                                             *)
(*                                                                         *)
(* Python values: an Optional[T] is a sequence of length 0 (None) or 1;    *)
(* a str that is searched or matched is a sequence of one-character        *)
(* strings; a datetime is a number of clock ticks; a float is the number   *)
(* itself.                                                                 *)
(***************************************************************************)
EXTENDS Integers, Sequences, FiniteSets, TLC

VARIABLES backend,       \* "mongo" or "sqlite": the store module in use
          docs,          \* mongo: the documents of the collection
          next_oid,      \* mongo: the next ObjectId the driver generates
          unique_index,  \* mongo: the unique index on query_id exists
          pc,            \* mongo: position of each caller of save_query_document
          local,         \* mongo: local variables of each caller
          rows,          \* sqlite: the rows of table query_history
          seq,           \* sqlite: sqlite_sequence entry of the AUTOINCREMENT key
          now,           \* the clock (datetime.utcnow / CURRENT_TIMESTAMP)
          resp,          \* the call that returned or raised last, with its result
          inserted,      \* history: id -> values given to the insert that returned id
          router,        \* "supervisor_agent" or "graph": the router in use
          routed,        \* router: the route call that returned last, with its result
          graph,         \* graph router: the run of the compiled workflow in progress
          conn           \* sqlite: the connection of the get_db context in progress

vars == <<backend, docs, next_oid, unique_index, pc, local, rows, seq, now, resp, inserted,
          router, routed, graph, conn>>


----------------------------------------------------------------------------
(* Bounds of the model *)

MaxInserts == 2        \* insert calls in one behaviour
MaxTicks == 1          \* clock ticks in one behaviour
MaxCollisions == 1     \* colliding draws explored per call by the step-wise callers
StartSec == 9          \* clock reading at start: the seconds then cross 09 -> 10

(* Program constants *)

IdLo == 100
IdHi == 999
MaxAttempts == 50

Procs == {"p1", "p2"}

----------------------------------------------------------------------------
(* Python values *)

None == <<>>
Some(v) == <<v>>

\* Python truthiness of an Optional[str]: None and the empty string are falsy
\* (an agent name is a string of the model, a searched text a sequence of characters)
TruthyName(o) == o # None /\ o[1] # ""
TruthyText(o) == o # None /\ o[1] # <<>>

PyInt(n) == [type |-> "int", val |-> n]
\* str(ObjectId): a string, never equal to an int
PyStrOfOid(oid) == [type |-> "str", val |-> oid]

ToLower ==
    [A |-> "a", B |-> "b", C |-> "c", D |-> "d", E |-> "e", F |-> "f", G |-> "g", H |-> "h", I |-> "i", J |-> "j", K |-> "k", L |-> "l", M |-> "m", N |-> "n", O |-> "o", P |-> "p", Q |-> "q", R |-> "r", S |-> "s", T |-> "t", U |-> "u", V |-> "v", W |-> "w", X |-> "x", Y |-> "y", Z |-> "z"]
ToUpper ==
    [a |-> "A", b |-> "B", c |-> "C", d |-> "D", e |-> "E", f |-> "F", g |-> "G", h |-> "H", i |-> "I", j |-> "J", k |-> "K", l |-> "L", m |-> "M", n |-> "N", o |-> "O", p |-> "P", q |-> "Q", r |-> "R", s |-> "S", t |-> "T", u |-> "U", v |-> "V", w |-> "W", x |-> "X", y |-> "Y", z |-> "Z"]
UpperCase == DOMAIN ToLower
LowerCase == DOMAIN ToUpper
\* ASCII case folding of one character
Lower(c) == IF c \in UpperCase THEN ToLower[c] ELSE c
Upper(c) == IF c \in LowerCase THEN ToUpper[c] ELSE c

\* term occurs in s as a literal substring, compared case-insensitively
ContainsCI(term, s) ==
    \E i \in 1..(Len(s) - Len(term) + 1) :
        \A k \in 1..Len(term) : Lower(term[k]) = Lower(s[i + k - 1])

Min(a, b) == IF a <= b THEN a ELSE b
Abs(n) == IF n < 0 THEN 0 - n ELSE n

\* all orderings of the finite set S, as sequences
Orderings(S) ==
    {s \in [1..Cardinality(S) -> S] : \A i, j \in 1..Cardinality(S) : i # j => s[i] # s[j]}

\* elements first..last of s (empty when the range is empty)
Slice(s, first, last) == [i \in 1..(IF last >= first THEN last - first + 1 ELSE 0) |-> s[first + i - 1]]

----------------------------------------------------------------------------
(* Inputs *)

Requests ==
    { [query |-> <<"A", "I">>, agent |-> "News Agent", response |-> "r1",
       execution_time |-> 2, adjustments |-> None],
      [query |-> <<"a", "i", "x">>, agent |-> "news agent", response |-> "r2",
       execution_time |-> 0, adjustments |-> Some(<<"adj">>)] }

\* the candidates random.randint(100, 999) draws in Spec and RaceSpec
SampleIds == {IdLo, IdLo + 1}

Limits == {0, 1, 2}
Offsets == {-1, 0, 1, 2}
\* (agent_filter, search) pairs given to list
Filters ==
    { <<None, None>>,
      <<Some("News Agent"), None>>,
      <<Some(""), None>>,
      <<None, Some(<<"X">>)>>,
      <<None, Some(<<".">>)>>,
      <<None, Some(<<"_">>)>>,
      <<Some("news agent"), Some(<<"A", "I">>)>> }
ListArgs ==
    {[limit |-> l, offset |-> o, agent_filter |-> f[1], search |-> f[2]] :
        l \in Limits, o \in Offsets, f \in Filters}

----------------------------------------------------------------------------
(* The clock *)

\* readings the clock can give now: it never runs backwards
ClockReadings == {t \in {now, now + 1} : t <= StartSec + MaxTicks}

----------------------------------------------------------------------------
(* MongoDB store: src/Database/mongodb.py *)

\* collection.find({"query_id": q}): the documents find_one can return
find_query_id(collection, q) == {d \in collection : d.query_id = q}

\* the candidates of draws for which find_one({"query_id": candidate}) finds nothing:
\* the probe loop returns such a candidate, and goes on after any other
FreeCandidates(collection, draws) == draws \ {d.query_id : d \in collection}

\* new_document with the adjustments of the caller dropped
new_document_no_adjustments(req, query_id, ts) ==
    [query_id |-> query_id,
     query |-> req.query,
     agent |-> req.agent,
     response |-> req.response,
     answer |-> req.response,
     execution_time |-> req.execution_time,
     timestamp |-> ts,
     adjustments |-> <<>>]

\* the document save_query_document builds
new_document(req, query_id, ts) ==
    [query_id |-> query_id,
     query |-> req.query,
     agent |-> req.agent,
     response |-> req.response,
     answer |-> req.response,
     execution_time |-> req.execution_time,
     timestamp |-> ts,
     adjustments |-> IF req.adjustments = None THEN <<>> ELSE req.adjustments[1]]

\* the unique index on query_id rejects the document
DuplicateKey(collection, indexed, doc) ==
    indexed /\ \E d \in collection : d.query_id = doc.query_id

\* collection.insert_one(doc): the driver adds _id
insert_one(collection, doc, oid) ==
    collection \cup {[_id |-> oid] @@ doc}

_normalize_document(doc) ==
    [query_id |-> PyStrOfOid(doc._id),
     query |-> doc.query,
     agent |-> doc.agent,
     response |-> doc.response,
     timestamp |-> doc.timestamp,
     execution_time |-> IF doc.execution_time # 0 THEN doc.execution_time ELSE 0,
     adjustments |-> doc.adjustments]

\* {"$regex": pattern, "$options": "i"}: unanchored; "." matches any character,
\* every other character of the model's alphabet matches itself
RegexSearch(pattern, s) ==
    \E i \in 1..(Len(s) - Len(pattern) + 1) :
        \A k \in 1..Len(pattern) :
            pattern[k] = "." \/ Lower(pattern[k]) = Lower(s[i + k - 1])

\* MongoMatches without the agent condition
MongoMatchesAnyAgent(doc, agent_filter, search) ==
    TruthyText(search) => RegexSearch(search[1], doc.query)

\* filter_query of get_query_documents
MongoMatches(doc, agent_filter, search) ==
    /\ TruthyName(agent_filter) => doc.agent = agent_filter[1]
    /\ TruthyText(search) => RegexSearch(search[1], doc.query)

\* .sort("timestamp", DESCENDING): the order among equal timestamps is the server's
SortTimestampDescending(S) ==
    {s \in Orderings(S) : \A i \in 1..(Cardinality(S) - 1) : s[i].timestamp >= s[i + 1].timestamp}

\* SkipLimit without the skip
SkipLimitNoSkip(s, offset, limit) ==
    Slice(s, 1, IF limit = 0 THEN Len(s) ELSE Min(Len(s), Abs(limit)))

\* .skip(offset).limit(limit): limit 0 is no limit, a negative limit is its absolute value
SkipLimit(s, offset, limit) ==
    Slice(s, offset + 1, IF limit = 0 THEN Len(s) ELSE Min(Len(s), offset + Abs(limit)))

\* the (items, total) pairs get_query_documents can return; offset >= 0
get_query_documents(collection, limit, offset, agent_filter, search) ==
    LET matching == {d \in collection : MongoMatches(d, agent_filter, search)}
    IN  {[items |-> [i \in DOMAIN SkipLimit(s, offset, limit) |->
                        _normalize_document(SkipLimit(s, offset, limit)[i])],
          total |-> Cardinality(matching)] : s \in SortTimestampDescending(matching)}

----------------------------------------------------------------------------
(* SQLite store: src/api/database.py *)

\* CURRENT_TIMESTAMP as stored: the seconds field of 'YYYY-MM-DD HH:MM:SS',
\* two digits, zero-padded (the model's clock stays within one minute)
CurrentTimestamp(t) == <<t \div 10, t % 10>>

IsDigits(text) == \A i \in 1..Len(text) : text[i] \in 0..9

\* datetime.strptime(text, format); a text of another shape falls back to datetime.now()
_parse_timestamp(text, clock) ==
    IF Len(text) = 2 /\ IsDigits(text) THEN 10 * text[1] + text[2] ELSE clock

\* SQLite compares TEXT byte by byte: a < b
TextLess(a, b) ==
    \E i \in 1..(Min(Len(a), Len(b)) + 1) :
        /\ \A k \in 1..(i - 1) : a[k] = b[k]
        /\ \/ (i > Len(a) /\ i <= Len(b))
           \/ (i <= Len(a) /\ i <= Len(b) /\ a[i] < b[i])

_row_to_dict(row, clock) ==
    [query_id |-> PyInt(row.query_id),
     query |-> row.query,
     agent |-> row.agent,
     response |-> row.response,
     timestamp |-> IF row.timestamp # <<>> THEN _parse_timestamp(row.timestamp, clock)
                   ELSE row.timestamp,
     execution_time |-> row.execution_time]

Max(a, b) == IF a >= b THEN a ELSE b
MaxRowid(table) == IF table = {} THEN 0
                   ELSE CHOOSE m \in {r.query_id : r \in table} : \A r \in table : r.query_id <= m

\* next_rowid one too low
next_rowid_off_by_one(table, sequence) == Max(MaxRowid(table), sequence)

\* next_rowid of INTEGER PRIMARY KEY without AUTOINCREMENT: one more than the largest
\* rowid now in the table
next_rowid_of_live_rows(table, sequence) == MaxRowid(table) + 1

\* INTEGER PRIMARY KEY AUTOINCREMENT: one more than the largest rowid the table ever had
next_rowid(table, sequence) == Max(MaxRowid(table), sequence) + 1

\* the row INSERT INTO query_history (query, agent, response, execution_time) adds
new_row(req, rowid, t) ==
    [query_id |-> rowid,
     query |-> req.query,
     agent |-> req.agent,
     response |-> req.response,
     timestamp |-> CurrentTimestamp(t),
     execution_time |-> req.execution_time]

\* text LIKE pattern: % matches any run of characters, _ any one character,
\* every other character itself, ASCII letters without regard to case
RECURSIVE Like(_, _)
Like(text, pattern) ==
    IF pattern = <<>> THEN text = <<>>
    ELSE IF Head(pattern) = "%"
         THEN \E n \in 0..Len(text) : Like(SubSeq(text, n + 1, Len(text)), Tail(pattern))
    ELSE /\ text # <<>>
         /\ Head(pattern) = "_" \/ Lower(Head(pattern)) = Lower(Head(text))
         /\ Like(Tail(text), Tail(pattern))

\* where_sql of get_query_history
SqliteMatches(row, agent_filter, search) ==
    /\ TruthyName(agent_filter) => row.agent = agent_filter[1]
    /\ TruthyText(search) => Like(row.query, <<"%">> \o search[1] \o <<"%">>)

\* OrderByTimestampDesc in ascending order
OrderByTimestampAsc(S) ==
    {s \in Orderings(S) :
        \A i \in 1..(Cardinality(S) - 1) : ~TextLess(s[i + 1].timestamp, s[i].timestamp)}

\* ORDER BY timestamp DESC on the stored text; rows with equal text in any order
OrderByTimestampDesc(S) ==
    {s \in Orderings(S) :
        \A i \in 1..(Cardinality(S) - 1) : ~TextLess(s[i].timestamp, s[i + 1].timestamp)}

\* LIMIT limit OFFSET offset: a negative limit is no limit, a negative offset is 0
LimitOffset(s, limit, offset) ==
    LET skip == Max(offset, 0)
    IN  Slice(s, skip + 1, IF limit < 0 THEN Len(s) ELSE Min(Len(s), skip + limit))

\* the (items, total) pairs get_query_history can return
get_query_history(table, clock, limit, offset, agent_filter, search) ==
    LET matching == {r \in table : SqliteMatches(r, agent_filter, search)}
    IN  {[items |-> [i \in DOMAIN LimitOffset(s, limit, offset) |->
                        _row_to_dict(LimitOffset(s, limit, offset)[i], clock)],
          total |-> Cardinality(matching)] : s \in OrderByTimestampDesc(matching)}

----------------------------------------------------------------------------
(* Statistics of both stores *)

RECURSIVE SumExecutionTime(_)
\* the sum of execution_time over the records of S
SumExecutionTime(S) ==
    IF S = {} THEN 0
    ELSE LET r == CHOOSE x \in S : TRUE
         IN  r.execution_time + SumExecutionTime(S \ {r})

\* round(sum / n, 3), in thousandths: to the nearest, a tie to the even one
Round3(sum, n) ==
    LET q == (1000 * sum) \div n
        rem == (1000 * sum) % n
    IN  IF 2 * rem > n \/ (2 * rem = n /\ q % 2 = 1) THEN q + 1 ELSE q

\* $avg / AVG(execution_time) with "or 0.0", rounded: in thousandths; no group
\* (Mongo) or NULL (SQLite) on an empty store gives 0.0
AvgExecutionTime(S) ==
    IF S = {} THEN 0 ELSE Round3(SumExecutionTime(S), Cardinality(S))

\* {"$group": {"_id": "$agent", "count": {"$sum": 1}}} / GROUP BY agent:
\* one row for each value of agent, with the number of its records
GroupByAgent(S) ==
    [a \in {r.agent : r \in S} |-> Cardinality({r \in S : r.agent = a})]

\* row.get("_id") or "Unknown": the key get_statistics_documents files a group under
AgentKey(a) == IF a # "" THEN a ELSE "Unknown"

\* the dictionaries the loop over the groups can build: the groups come in any
\* order, and of two groups with the same key the later one stays
MongoQueriesByAgent(S) ==
    LET g == GroupByAgent(S)
        keys == {AgentKey(a) : a \in DOMAIN g}
    IN  {[k \in keys |-> g[last[k]]] :
            last \in {f \in [keys -> DOMAIN g] : \A k \in keys : AgentKey(f[k]) = k}}

\* LastTimestamp with the sort ascending: the oldest timestamp
LastTimestampAscending(S) == CHOOSE t \in {r.timestamp : r \in S} : \A r \in S : t <= r.timestamp

\* the timestamp of find_one(sort=[("timestamp", DESCENDING)])
LastTimestamp(S) == CHOOSE t \in {r.timestamp : r \in S} : \A r \in S : r.timestamp <= t

\* the results get_statistics_documents can return
get_statistics_documents(collection) ==
    {[total_queries |-> Cardinality(collection),
      queries_by_agent |-> q,
      avg_execution_time |-> AvgExecutionTime(collection),
      last_query_time |-> IF collection = {} THEN None
                          ELSE Some(LastTimestamp(collection))] :
        q \in MongoQueriesByAgent(collection)}

\* the results get_statistics can return
get_statistics(table, clock) ==
    {[total_queries |-> Cardinality(table),
      queries_by_agent |-> GroupByAgent(table),
      avg_execution_time |-> AvgExecutionTime(table),
      last_query_time |-> IF table = {} \/ s[1].timestamp = <<>> THEN None
                          ELSE Some(_parse_timestamp(s[1].timestamp, clock))] :
        s \in OrderByTimestampDesc(table)}

----------------------------------------------------------------------------
(* Responses and the history of inserts *)

Returned(op, args, result) == [op |-> op, args |-> args, result |-> result, err |-> ""]
Raised(op, args, e) == [op |-> op, args |-> args, result |-> None, err |-> e]

\* what the caller gave to insert (adjustments: the list, empty when left out)
Given(req) ==
    [query |-> req.query, agent |-> req.agent, response |-> req.response,
     execution_time |-> req.execution_time,
     adjustments |-> IF req.adjustments = None THEN <<>> ELSE req.adjustments[1]]

Record(id, req) == [i \in DOMAIN inserted \cup {id} |-> IF i = id THEN Given(req) ELSE inserted[i]]
Forget(ids) == [i \in DOMAIN inserted \ ids |-> inserted[i]]

NoCaller == [req |-> None, probes |-> 0, doc |-> None]

----------------------------------------------------------------------------
(* MongoDB store, one database operation per step *)

\* init_mongo_indexes without unique=True
init_mongo_indexes_not_unique(collection) == FALSE

\* init_mongo_indexes: building the unique index fails on a collection with duplicates
init_mongo_indexes(collection) ==
    \A d1, d2 \in collection : d1.query_id = d2.query_id => d1 = d2

\* save_query_document is called
SaveCall(p) ==
    /\ backend = "mongo"
    /\ pc[p] = "idle"
    /\ next_oid + Cardinality({q \in Procs : pc[q] # "idle"}) <= MaxInserts
    /\ \E req \in Requests :
         local' = [local EXCEPT ![p] = [NoCaller EXCEPT !.req = Some(req)]]
    /\ pc' = [pc EXCEPT ![p] = "generate"]
    /\ UNCHANGED <<conn, router, routed, graph, backend, docs, next_oid, unique_index, rows, seq, now, resp, inserted>>

\* GenerateCollide without the cap on the iterations
GenerateCollideNoCap(p, draws) ==
    /\ pc[p] = "generate"
    /\ FreeCandidates(docs, draws) # draws
    /\ local' = [local EXCEPT ![p].probes = @ + 1]
    /\ UNCHANGED <<conn, router, routed, graph, backend, docs, next_oid, unique_index, pc, rows, seq, now, resp, inserted>>

\* _generate_unique_query_id: an iteration of the loop whose candidate, one of
\* draws, is in use: find_one returns a document and the loop goes on
GenerateCollide(p, draws) ==
    /\ pc[p] = "generate"
    /\ local[p].probes < MaxAttempts
    /\ FreeCandidates(docs, draws) # draws
    /\ local' = [local EXCEPT ![p].probes = @ + 1]
    /\ UNCHANGED <<conn, router, routed, graph, backend, docs, next_oid, unique_index, pc, rows, seq, now, resp, inserted>>

\* _generate_unique_query_id: an iteration whose candidate is free: the function
\* returns it and the caller builds the document
GenerateReturn(p, draws) ==
    /\ pc[p] = "generate"
    /\ local[p].probes < MaxAttempts
    /\ \E candidate \in FreeCandidates(docs, draws), ts \in ClockReadings :
         /\ local' = [local EXCEPT ![p].probes = @ + 1,
                                   ![p].doc = Some(new_document(local[p].req[1], candidate, ts))]
         /\ now' = ts
    /\ pc' = [pc EXCEPT ![p] = "insert_one"]
    /\ UNCHANGED <<conn, router, routed, graph, backend, docs, next_oid, unique_index, rows, seq, resp, inserted>>

\* _generate_unique_query_id: the loop ran out, RuntimeError goes to the caller
GenerateRaise(p) ==
    /\ pc[p] = "generate"
    /\ local[p].probes >= MaxAttempts
    /\ resp' = Raised("insert", local[p].req[1], "RuntimeError")
    /\ pc' = [pc EXCEPT ![p] = "idle"]
    /\ local' = [local EXCEPT ![p] = NoCaller]
    /\ UNCHANGED <<conn, router, routed, graph, backend, docs, next_oid, unique_index, rows, seq, now, inserted>>

\* collection.insert_one(doc) and the return of query_id; the error of the
\* unique index is not caught
InsertOneStep(p) ==
    /\ pc[p] = "insert_one"
    /\ LET doc == local[p].doc[1]
       IN  IF DuplicateKey(docs, unique_index, doc)
           THEN /\ resp' = Raised("insert", local[p].req[1], "DuplicateKeyError")
                /\ UNCHANGED <<docs, inserted>>
           ELSE /\ docs' = insert_one(docs, doc, next_oid)
                /\ resp' = Returned("insert", local[p].req[1], doc.query_id)
                /\ inserted' = Record(doc.query_id, local[p].req[1])
    /\ next_oid' = next_oid + 1
    /\ pc' = [pc EXCEPT ![p] = "idle"]
    /\ local' = [local EXCEPT ![p] = NoCaller]
    /\ UNCHANGED <<conn, router, routed, graph, backend, unique_index, rows, seq, now>>

----------------------------------------------------------------------------
(* MongoDB store, one call per step *)

\* save_query_document by a caller that is alone: the probes that collide, the
\* probe that finds a free candidate, insert_one
save_query_document(req) ==
    /\ backend = "mongo"
    /\ next_oid <= MaxInserts
    /\ \/ \E candidate \in FreeCandidates(docs, SampleIds), ts \in ClockReadings :
            /\ LET doc == new_document(req, candidate, ts)
               IN  IF DuplicateKey(docs, unique_index, doc)
                   THEN /\ resp' = Raised("insert", req, "DuplicateKeyError")
                        /\ UNCHANGED <<docs, inserted>>
                   ELSE /\ docs' = insert_one(docs, doc, next_oid)
                        /\ resp' = Returned("insert", req, candidate)
                        /\ inserted' = Record(candidate, req)
            /\ now' = ts
            /\ next_oid' = next_oid + 1
       \/ /\ FreeCandidates(docs, IdLo..IdHi) # IdLo..IdHi
          /\ resp' = Raised("insert", req, "RuntimeError")
          /\ UNCHANGED <<docs, inserted, now, next_oid>>
    /\ UNCHANGED <<conn, router, routed, graph, backend, unique_index, pc, local, rows, seq>>

get_query_document_by_id(query_id) ==
    /\ backend = "mongo"
    /\ \/ /\ find_query_id(docs, query_id) = {}
          /\ resp' = Returned("getById", query_id, None)
       \/ \E doc \in find_query_id(docs, query_id) :
            resp' = Returned("getById", query_id, Some(_normalize_document(doc)))
    /\ UNCHANGED <<conn, router, routed, graph, backend, docs, next_oid, unique_index, pc, local, rows, seq, now, inserted>>

GetQueryDocuments(a) ==
    /\ backend = "mongo"
    /\ IF a.offset < 0
       THEN resp' = Raised("list", a, "ValueError")
       ELSE \E r \in get_query_documents(docs, a.limit, a.offset, a.agent_filter, a.search) :
              resp' = Returned("list", a, r)
    /\ UNCHANGED <<conn, router, routed, graph, backend, docs, next_oid, unique_index, pc, local, rows, seq, now, inserted>>

\* delete_one removes one matching document
delete_query_document(query_id) ==
    /\ backend = "mongo"
    /\ \/ /\ find_query_id(docs, query_id) = {}
          /\ resp' = Returned("delete", query_id, FALSE)
          /\ UNCHANGED <<docs, inserted>>
       \/ \E doc \in find_query_id(docs, query_id) :
            /\ docs' = docs \ {doc}
            /\ resp' = Returned("delete", query_id, TRUE)
            /\ inserted' = Forget({query_id})
    /\ UNCHANGED <<conn, router, routed, graph, backend, next_oid, unique_index, pc, local, rows, seq, now>>

clear_history_documents ==
    /\ backend = "mongo"
    /\ docs' = {}
    /\ resp' = Returned("clear", None, Cardinality(docs))
    /\ inserted' = Forget(DOMAIN inserted)
    /\ UNCHANGED <<conn, router, routed, graph, backend, next_oid, unique_index, pc, local, rows, seq, now>>

GetStatisticsDocuments ==
    /\ backend = "mongo"
    /\ \E r \in get_statistics_documents(docs) : resp' = Returned("statistics", None, r)
    /\ UNCHANGED <<conn, router, routed, graph, backend, docs, next_oid, unique_index, pc, local, rows, seq, now, inserted>>

----------------------------------------------------------------------------
(* SQLite store, one call (one transaction) per step *)

save_query(req) ==
    /\ backend = "sqlite"
    /\ seq < MaxInserts
    /\ \E ts \in ClockReadings :
         LET rowid == next_rowid(rows, seq)
         IN  /\ rows' = rows \cup {new_row(req, rowid, ts)}
             /\ seq' = rowid
             /\ now' = ts
             /\ resp' = Returned("insert", req, rowid)
             /\ inserted' = Record(rowid, [req EXCEPT !.adjustments = None])
    /\ UNCHANGED <<conn, router, routed, graph, backend, docs, next_oid, unique_index, pc, local>>

get_query_by_id(query_id) ==
    /\ backend = "sqlite"
    /\ \/ /\ {r \in rows : r.query_id = query_id} = {}
          /\ resp' = Returned("getById", query_id, None)
       \/ \E row \in {r \in rows : r.query_id = query_id} :
            resp' = Returned("getById", query_id, Some(_row_to_dict(row, now)))
    /\ UNCHANGED <<conn, router, routed, graph, backend, docs, next_oid, unique_index, pc, local, rows, seq, now, inserted>>

GetQueryHistory(a) ==
    /\ backend = "sqlite"
    /\ \E r \in get_query_history(rows, now, a.limit, a.offset, a.agent_filter, a.search) :
         resp' = Returned("list", a, r)
    /\ UNCHANGED <<conn, router, routed, graph, backend, docs, next_oid, unique_index, pc, local, rows, seq, now, inserted>>

\* delete_query returning rowcount >= 0
delete_query_rowcount_ge_zero(query_id) ==
    /\ backend = "sqlite"
    /\ rows' = {r \in rows : r.query_id # query_id}
    /\ resp' = Returned("delete", query_id, Cardinality(rows) - Cardinality(rows') >= 0)
    /\ inserted' = Forget({query_id})
    /\ UNCHANGED <<conn, router, routed, graph, backend, docs, next_oid, unique_index, pc, local, seq, now>>

\* delete_query with WHERE query_id <= ?
delete_query_and_older(query_id) ==
    /\ backend = "sqlite"
    /\ rows' = {r \in rows : r.query_id > query_id}
    /\ resp' = Returned("delete", query_id, Cardinality(rows) - Cardinality(rows') > 0)
    /\ inserted' = Forget({r.query_id : r \in rows \ rows'})
    /\ UNCHANGED <<conn, router, routed, graph, backend, docs, next_oid, unique_index, pc, local, seq, now>>

delete_query(query_id) ==
    /\ backend = "sqlite"
    /\ rows' = {r \in rows : r.query_id # query_id}
    /\ resp' = Returned("delete", query_id, Cardinality(rows) - Cardinality(rows') > 0)
    /\ inserted' = Forget({query_id})
    /\ UNCHANGED <<conn, router, routed, graph, backend, docs, next_oid, unique_index, pc, local, seq, now>>

\* clear_history with a DELETE that spares the newest row
clear_history_spares_newest ==
    /\ backend = "sqlite"
    /\ rows' = {r \in rows : r.query_id = MaxRowid(rows)}
    /\ resp' = Returned("clear", None, Cardinality(rows) - Cardinality(rows'))
    /\ inserted' = Forget(DOMAIN inserted \ {MaxRowid(rows)})
    /\ UNCHANGED <<conn, router, routed, graph, backend, docs, next_oid, unique_index, pc, local, seq, now>>

clear_history ==
    /\ backend = "sqlite"
    /\ rows' = {}
    /\ resp' = Returned("clear", None, Cardinality(rows))
    /\ inserted' = Forget(DOMAIN inserted)
    /\ UNCHANGED <<conn, router, routed, graph, backend, docs, next_oid, unique_index, pc, local, seq, now>>

GetStatistics ==
    /\ backend = "sqlite"
    /\ \E r \in get_statistics(rows, now) : resp' = Returned("statistics", None, r)
    /\ UNCHANGED <<conn, router, routed, graph, backend, docs, next_oid, unique_index, pc, local, rows, seq, now, inserted>>

----------------------------------------------------------------------------
(* SQLite store, one step per stage of the get_db context *)

\* no get_db context has been entered yet
NoConnection == [state |-> "closed"]

\* the operations that write inside get_db, with their arguments
WriteCalls ==
    {[op |-> "insert", args |-> req] : req \in Requests}
    \cup {[op |-> "delete", args |-> id] : id \in 1..(MaxInserts + 1)}
    \cup {[op |-> "clear", args |-> None]}

\* with get_db() as conn: sqlite3.connect, then the body sees the committed rows
GetDbEnter(call) ==
    /\ backend = "sqlite"
    /\ conn.state = "closed"
    /\ call.op = "insert" => seq < MaxInserts
    /\ conn' = [state |-> "open", op |-> call.op, args |-> call.args, table |-> rows,
                sequence |-> seq, result |-> None, done |-> FALSE, exc |-> ""]
    /\ UNCHANGED <<router, routed, graph, backend, docs, next_oid, unique_index, pc, local,
                   rows, seq, now, resp, inserted>>

\* the body of the with block: cursor.execute changes the rows of the open
\* transaction, or raises and changes nothing
GetDbBody ==
    /\ conn.state = "open"
    /\ ~conn.done
    /\ \/ /\ conn.op = "insert"
          /\ \E ts \in ClockReadings :
               LET rowid == next_rowid(conn.table, conn.sequence)
               IN  /\ conn' = [conn EXCEPT !.table = @ \cup {new_row(conn.args, rowid, ts)},
                                           !.sequence = rowid,
                                           !.result = rowid,
                                           !.done = TRUE]
                   /\ now' = ts
       \/ /\ conn.op = "delete"
          /\ conn' = [conn EXCEPT !.table = {r \in @ : r.query_id # conn.args},
                                  !.result = \E r \in conn.table : r.query_id = conn.args,
                                  !.done = TRUE]
          /\ UNCHANGED now
       \/ /\ conn.op = "clear"
          /\ conn' = [conn EXCEPT !.table = {},
                                  !.result = Cardinality(conn.table),
                                  !.done = TRUE]
          /\ UNCHANGED now
       \/ /\ conn' = [conn EXCEPT !.exc = "sqlite3.Error", !.done = TRUE]
          /\ UNCHANGED now
    /\ UNCHANGED <<router, routed, graph, backend, docs, next_oid, unique_index, pc, local,
                   rows, seq, resp, inserted>>

\* the history after the committed call
Committed(call) ==
    CASE call.op = "insert" -> Record(call.result, [call.args EXCEPT !.adjustments = None])
      [] call.op = "delete" -> Forget({call.args})
      [] call.op = "clear" -> Forget(DOMAIN inserted)

\* get_db whose except clause commits what the body did
GetDbExitCommitsAnyway ==
    /\ conn.state = "open"
    /\ conn.done
    /\ \/ /\ conn.exc = ""
          /\ rows' = conn.table
          /\ seq' = conn.sequence
          /\ resp' = Returned(conn.op, conn.args, conn.result)
          /\ inserted' = Committed(conn)
          /\ conn' = [conn EXCEPT !.state = "closed"]
       \/ /\ rows' = conn.table
          /\ seq' = conn.sequence
          /\ resp' = Raised(conn.op, conn.args, "sqlite3.Error")
          /\ inserted' = IF conn.exc = "" THEN Committed(conn) ELSE inserted
          /\ conn' = [conn EXCEPT !.state = "closed", !.exc = "sqlite3.Error"]
    /\ UNCHANGED <<router, routed, graph, backend, docs, next_oid, unique_index, pc, local, now>>

\* the end of get_db: conn.commit() when the body ended without an exception; on an
\* exception of the body or of commit, conn.rollback() and raise; conn.close() always
GetDbExit ==
    /\ conn.state = "open"
    /\ conn.done
    /\ \/ /\ conn.exc = ""
          /\ rows' = conn.table
          /\ seq' = conn.sequence
          /\ resp' = Returned(conn.op, conn.args, conn.result)
          /\ inserted' = Committed(conn)
          /\ conn' = [conn EXCEPT !.state = "closed"]
       \/ /\ resp' = Raised(conn.op, conn.args, "sqlite3.Error")
          /\ conn' = [conn EXCEPT !.state = "closed", !.exc = "sqlite3.Error"]
          /\ UNCHANGED <<rows, seq, inserted>>
    /\ UNCHANGED <<router, routed, graph, backend, docs, next_oid, unique_index, pc, local, now>>

----------------------------------------------------------------------------
(* Python str operations used by the routers and the responders *)

Whitespace == {" ", "\n", "\t"}
Digits == {"0", "1", "2", "3", "4", "5", "6", "7", "8", "9"}

RECURSIVE LStrip(_)
LStrip(s) == IF s # <<>> /\ Head(s) \in Whitespace THEN LStrip(Tail(s)) ELSE s

RECURSIVE RStrip(_)
RStrip(s) ==
    IF s # <<>> /\ s[Len(s)] \in Whitespace THEN RStrip(SubSeq(s, 1, Len(s) - 1)) ELSE s

\* s.strip()
Strip(s) == RStrip(LStrip(s))

\* s.lower(), s.upper()
LowerStr(s) == [i \in DOMAIN s |-> Lower(s[i])]
UpperStr(s) == [i \in DOMAIN s |-> Upper(s[i])]

\* sub in s
Contains(sub, s) ==
    \E i \in 1..(Len(s) - Len(sub) + 1) : SubSeq(s, i, i + Len(sub) - 1) = sub

\* any(w in s for w in words)
ContainsAny(words, s) == \E w \in words : Contains(w, s)

\* the first word of s and what follows it, s not starting with whitespace
RECURSIVE FirstWord(_)
FirstWord(s) ==
    IF s = <<>> \/ Head(s) \in Whitespace THEN <<>>
    ELSE <<Head(s)>> \o FirstWord(Tail(s))

\* s.split(): the runs of characters between whitespace
RECURSIVE Split(_)
Split(s) ==
    LET t == LStrip(s)
    IN  IF t = <<>> THEN <<>>
        ELSE <<FirstWord(t)>> \o Split(SubSeq(t, Len(FirstWord(t)) + 1, Len(t)))

\* word.replace(".", "")
RECURSIVE RemoveDots(_)
RemoveDots(word) ==
    IF word = <<>> THEN <<>>
    ELSE (IF Head(word) = "." THEN <<>> ELSE <<Head(word)>>) \o RemoveDots(Tail(word))

\* word.isalnum(): not empty, letters and digits only
IsAlnum(word) ==
    word # <<>> /\ \A i \in DOMAIN word : word[i] \in UpperCase \cup LowerCase \cup Digits

----------------------------------------------------------------------------
(* Outcomes of the external calls *)

\* what a call gives its caller: a text, or an exception (exc is its class)
Return(text) == [text |-> text, exc |-> ""]
Raise(exc) == [text |-> [kind |-> "", arg |-> <<>>], exc |-> exc]

\* an f-string: the fixed part and the value formatted into it
Text(kind, arg) == [kind |-> kind, arg |-> arg]

\* the exception classes of the model; all derive from Exception
RequestExceptions == {"Timeout", "ConnectionError", "JSONDecodeError"}
Exceptions == RequestExceptions \cup {"APIError", "TypeError"}

\* outcomes of requests.get(...) with response.json() / of yf.Ticker(symbol).info
FetchOutcomes == {"ok", "empty", "http_error", "api_error", "Timeout", "ConnectionError",
                  "JSONDecodeError"}
\* outcomes of get_llm().invoke(...) in a responder
LlmOutcomes == {"ok", "APIError"}

\* the environment of one responder call: is its API key configured, what its
\* data source does, what the language model does
ResponderEnvs == [key : BOOLEAN, fetch : FetchOutcomes, llm : LlmOutcomes]

----------------------------------------------------------------------------
(* Responders: src/agents/*.py and general_agent of src/supervisor/supervisor.py *)

\* the body of the try block of news_agent
news_agent_try(query, env) ==
    CASE env.fetch \in {"Timeout", "ConnectionError", "JSONDecodeError"} -> Raise(env.fetch)
      [] env.fetch = "http_error" -> Return(Text("API Request Failed", <<>>))
      [] env.fetch = "api_error" -> Return(Text("NewsAPI Error", <<>>))
      [] env.fetch = "empty" -> Return(Text("No recent news found for", query))
      [] env.fetch = "ok" ->
           IF env.llm = "ok" THEN Return(Text("Latest Real-World Analysis on", query))
           ELSE Raise(env.llm)

news_agent(query, env) ==
    IF ~env.key THEN Return(Text("News API key is missing", <<>>))
    ELSE LET body == news_agent_try(query, env)
         IN  IF body.exc = "" THEN body
             ELSE IF body.exc = "Timeout" THEN Return(Text("Request timed out", <<>>))
             ELSE IF body.exc \in RequestExceptions THEN Return(Text("Network Error", <<body.exc>>))
             ELSE IF body.exc \in Exceptions THEN Return(Text("Unexpected Error", <<body.exc>>))
             ELSE body

\* the body of the try block of market_agent
market_agent_try(query, env) ==
    CASE env.fetch \in {"Timeout", "ConnectionError", "JSONDecodeError"} -> Raise(env.fetch)
      [] env.fetch \in {"empty", "http_error", "api_error"} ->
           Return(Text("No products found for", query))
      [] env.fetch = "ok" ->
           IF env.llm = "ok" THEN Return(Text("Market Research", query))
           ELSE Raise(env.llm)

market_agent(query, env) ==
    IF ~env.key THEN Return(Text("RapidAPI key not configured.", <<>>))
    ELSE LET body == market_agent_try(query, env)
         IN  IF body.exc = "" THEN body
             ELSE IF body.exc \in Exceptions THEN Return(Text("Market research failed", <<body.exc>>))
             ELSE body

common_tickers ==
    { <<<<"A", "P", "P", "L", "E">>, <<"A", "A", "P", "L">>>>,
      <<<<"T", "E", "S", "L", "A">>, <<"T", "S", "L", "A">>>>,
      <<<<"G", "O", "O", "G", "L", "E">>, <<"G", "O", "O", "G", "L">>>>,
      <<<<"M", "I", "C", "R", "O", "S", "O", "F", "T">>, <<"M", "S", "F", "T">>>>,
      <<<<"A", "M", "A", "Z", "O", "N">>, <<"A", "M", "Z", "N">>>>,
      <<<<"N", "V", "I", "D", "I", "A">>, <<"N", "V", "D", "A">>>>,
      <<<<"M", "E", "T", "A">>, <<"M", "E", "T", "A">>>>,
      <<<<"N", "E", "T", "F", "L", "I", "X">>, <<"N", "F", "L", "X">>>> }

MaxTickerLen == 5
DefaultTicker == <<"A", "A", "P", "L">>

\* the loop of extract_symbol over the words that are left
RECURSIVE extract_symbol_loop(_)
extract_symbol_loop(words) ==
    IF words = <<>> THEN DefaultTicker
    ELSE LET word == Head(words)
         IN  IF \E t \in common_tickers : t[1] = word
             THEN (CHOOSE t \in common_tickers : t[1] = word)[2]
             ELSE IF Len(word) <= MaxTickerLen /\ IsAlnum(RemoveDots(word))
             THEN word
             ELSE extract_symbol_loop(Tail(words))

extract_symbol(query) == extract_symbol_loop(Split(UpperStr(query)))

\* the body of the try block of stock_agent; formatting a missing field raises
stock_agent_try(symbol, env) ==
    CASE env.fetch \in {"Timeout", "ConnectionError", "JSONDecodeError"} -> Raise(env.fetch)
      [] env.fetch \in {"empty", "http_error", "api_error"} -> Raise("TypeError")
      [] env.fetch = "ok" ->
           IF env.llm = "ok" THEN Return(Text("Stock Analysis", symbol))
           ELSE Raise(env.llm)

stock_agent(query, env) ==
    LET symbol == extract_symbol(query)
        body == stock_agent_try(symbol, env)
    IN  IF body.exc = "" THEN body
        ELSE IF body.exc \in Exceptions THEN Return(Text("Could not fetch stock data for", symbol))
        ELSE body

general_agent(query, env) ==
    LET body == IF env.llm = "ok" THEN Return(Text("General Knowledge Response", query))
                ELSE Raise(env.llm)
    IN  IF body.exc = "" THEN body
        ELSE IF body.exc \in Exceptions THEN Return(Text("General LLM failed", <<body.exc>>))
        ELSE body

----------------------------------------------------------------------------
(* Inputs of the routers *)

RouteQueries ==
    {<<"A", "A", "P", "L", " ", "s", "t", "o", "c", "k", " ", "p", "r", "i", "c", "e">>,
     <<"l", "a", "t", "e", "s", "t", " ", "n", "e", "w", "s", " ", "o", "n", " ", "A", "I">>,
     <<"B", "u", "y", " ", "l", "a", "p", "t", "o", "p">>,
     <<"h", "i">>}

\* contents of the reply of the language model to the routing prompt
Replies ==
    {<<" ", "N", "e", "w", "s", "\n">>,
     <<"m", "a", "r", "k", "e", "t">>,
     <<"S", "t", "o", "c", "k">>,
     <<"g", "e", "n", "e", "r", "a", "l">>,
     <<"s", "t", "o", "c", "k", " ", "m", "a", "r", "k", "e", "t", " ", "n", "e", "w", "s">>,
     <<"m", "a", "r", "k", "e", "t", " ", "s", "t", "o", "c", "k">>,
     <<"i", "p", "h", "o", "n", "e">>}

\* outcomes of the classification call: a reply, or an exception
ClassifyOutcomes ==
    {[reply |-> r, exc |-> ""] : r \in Replies} \cup {[reply |-> <<>>, exc |-> "APIError"]}

----------------------------------------------------------------------------
(* Direct router: src/supervisor/supervisor.py *)

\* the responder functions supervisor_agent can call
Responders == {"news_agent", "market_agent", "stock_agent", "general_agent"}

\* route_label with market tested before news
route_label_market_first(route) ==
    IF Contains(<<"m", "a", "r", "k", "e", "t">>, route) THEN "market"
    ELSE IF Contains(<<"n", "e", "w", "s">>, route) THEN "news"
    ELSE IF Contains(<<"s", "t", "o", "c", "k">>, route) THEN "stock"
    ELSE ""

\* the branch of the if/elif chain of supervisor_agent that route takes ("" is else)
route_label(route) ==
    IF Contains(<<"n", "e", "w", "s">>, route) THEN "news"
    ELSE IF Contains(<<"m", "a", "r", "k", "e", "t">>, route) THEN "market"
    ELSE IF Contains(<<"s", "t", "o", "c", "k">>, route) THEN "stock"
    ELSE ""

\* the responder and the agent name of each branch
BranchResponder == [news |-> "news_agent", market |-> "market_agent", stock |-> "stock_agent"]
BranchAgent == [news |-> "News Agent", market |-> "Market Research Agent", stock |-> "Stock Analyst"]

RunResponder(name, query, env) ==
    CASE name = "news_agent" -> news_agent(query, env)
      [] name = "market_agent" -> market_agent(query, env)
      [] name = "stock_agent" -> stock_agent(query, env)
      [] name = "general_agent" -> general_agent(query, env)

\* no responder was called
NoOutcome == [text |-> Text("", <<>>), exc |-> "none"]
NoResult == [agent |-> "", response |-> Text("", <<>>), query |-> <<>>]

\* the body of the try block of supervisor_agent: the result it returns or the
\* exception it raises, with the external calls made (trace), the branch taken
\* (label) and what the responder gave (responder)
supervisor_agent_try(query, classify, env) ==
    IF classify.exc # ""
    THEN [result |-> NoResult, exc |-> classify.exc, trace |-> <<"classify">>,
          label |-> "", responder |-> NoOutcome]
    ELSE LET route == LowerStr(Strip(classify.reply))
             label == route_label(route)
             name == IF label = "" THEN "general_agent" ELSE BranchResponder[label]
             agent == IF label = "" THEN "General Assistant" ELSE BranchAgent[label]
             out == RunResponder(name, query, env)
         IN  [result |-> IF out.exc = ""
                         THEN [agent |-> agent, response |-> out.text, query |-> query]
                         ELSE NoResult,
              exc |-> out.exc, trace |-> <<"classify", name>>,
              label |-> label, responder |-> out]

\* supervisor_agent without its except clause
supervisor_agent_no_except(query, classify, env) ==
    supervisor_agent_try(query, classify, env)

supervisor_agent(query, classify, env) ==
    LET body == supervisor_agent_try(query, classify, env)
    IN  IF body.exc \in Exceptions
        THEN [body EXCEPT !.result = [agent |-> "Error",
                                      response |-> Text("System error", <<body.exc>>),
                                      query |-> query],
                          !.exc = ""]
        ELSE body

NoRoute == [op |-> "start"]

\* one call of supervisor_agent
SupervisorAgent(query, classify, env) ==
    /\ router = "supervisor_agent"
    /\ routed' = [op |-> "supervisor_agent", query |-> query, classify |-> classify,
                  call |-> supervisor_agent(query, classify, env)]
    /\ UNCHANGED <<conn, router, graph, backend, docs, next_oid, unique_index, pc, local, rows, seq, now,
                   resp, inserted>>

----------------------------------------------------------------------------
(* Graph router: src/multi_agent_system.py *)

END == "__end__"
AgentNodes == {"news_agent", "market_research_agent", "stock_agent"}

HumanMessage(content) == [type |-> "human", content |-> content]
AIMessage(content) == [type |-> "ai", content |-> content]

NewsKeywords ==
    {<<"n", "e", "w", "s">>,
      <<"a", "r", "t", "i", "c", "l", "e">>,
      <<"l", "a", "t", "e", "s", "t">>,
      <<"h", "e", "a", "d", "l", "i", "n", "e", "s">>}
MarketKeywords ==
    {<<"p", "r", "i", "c", "e">>,
      <<"f", "e", "a", "t", "u", "r", "e">>,
      <<"i", "p", "h", "o", "n", "e">>,
      <<"l", "a", "p", "t", "o", "p">>,
      <<"b", "u", "y">>}
StockKeywords ==
    {<<"s", "t", "o", "c", "k">>,
      <<"a", "a", "p", "l">>,
      <<"t", "e", "s", "l", "a">>,
      <<"n", "a", "s", "d", "a", "q">>,
      <<"p", "r", "i", "c", "e", " ", "o", "f">>}

\* the first three tests of supervisor_node on the reply ("" when none returns)
supervisor_node_label(route) ==
    IF Contains(<<"n", "e", "w", "s">>, route) THEN "news"
    ELSE IF ContainsAny({<<"m", "a", "r", "k", "e", "t">>, <<"p", "r", "o", "d", "u", "c", "t">>, <<"i", "p", "h", "o", "n", "e">>}, route)
    THEN "market"
    ELSE IF ContainsAny({<<"s", "t", "o", "c", "k">>, <<"a", "a", "p", "l">>}, route) THEN "stock"
    ELSE ""

LabelNode == [news |-> "news_agent", market |-> "market_research_agent", stock |-> "stock_agent"]

\* the fallback keyword routing of supervisor_node, with its default
keyword_routing(q) ==
    IF ContainsAny(NewsKeywords, q) THEN "news_agent"
    ELSE IF ContainsAny(MarketKeywords, q) THEN "market_research_agent"
    ELSE IF ContainsAny(StockKeywords, q) THEN "stock_agent"
    ELSE "news_agent"

HasAIMessage(messages) == \E i \in DOMAIN messages : messages[i].type = "ai"

\* supervisor_node: the value of "next" it returns, whether it called the model,
\* and the label the reply matched; an exception of the call ends the run
supervisor_node(messages, classify) ==
    IF HasAIMessage(messages) THEN [next |-> END, called |-> FALSE, label |-> ""]
    ELSE IF classify.exc \in Exceptions THEN [next |-> END, called |-> TRUE, label |-> ""]
    ELSE LET query == messages[Len(messages)].content
             route == LowerStr(Strip(classify.reply))
             label == supervisor_node_label(route)
         IN  [next |-> IF label # "" THEN LabelNode[label]
                       ELSE keyword_routing(LowerStr(query)),
              called |-> TRUE, label |-> label]

\* what the model bound to one tool answers first, what the tool does with the
\* arguments of the tool call, what the model does when asked for the summary
FirstOutcomes == {"tool_call", "other_tool_call", "answer", "APIError"}
ToolOutcomes == {"ok", "ValidationError"}
NodeEnvs == [first : FirstOutcomes, tool : ToolOutcomes, summary : LlmOutcomes]

\* a node of make_agent_node: the message it adds, or the exception it raises
make_agent_node(tool_name, env) ==
    IF env.first = "APIError" THEN Raise(env.first)
    ELSE IF env.first = "tool_call"
    THEN IF env.tool # "ok" THEN Raise(env.tool)
         ELSE IF env.summary # "ok" THEN Raise(env.summary)
         ELSE Return(Text("summary of the result of", <<tool_name>>))
    ELSE Return(Text("answer", <<>>))

NodeTool == [news_agent |-> "search_news", market_research_agent |-> "get_product_info",
             stock_agent |-> "get_stock_market_data"]

IdleGraph == [node |-> "idle"]

\* run_agent_system calls graph.invoke: START -> supervisor
RunAgentSystem(query) ==
    /\ router = "graph"
    /\ graph.node = "idle"
    /\ graph' = [node |-> "supervisor", query |-> query,
                 messages |-> <<HumanMessage(query)>>,
                 classify |-> [reply |-> <<>>, exc |-> "none"],
                 trace |-> <<>>, label |-> "", responder |-> NoOutcome, exc |-> ""]
    /\ UNCHANGED <<conn, router, routed, backend, docs, next_oid, unique_index, pc, local, rows, seq,
                   now, resp, inserted>>

\* the supervisor node runs and the conditional edge follows "next"
SupervisorNode(classify) ==
    /\ graph.node = "supervisor"
    /\ LET r == supervisor_node(graph.messages, classify)
       IN  graph' = [graph EXCEPT !.node = r.next,
                                  !.classify = IF r.called THEN classify ELSE @,
                                  !.trace = IF r.called THEN Append(@, "classify") ELSE @,
                                  !.label = r.label]
    /\ UNCHANGED <<conn, router, routed, backend, docs, next_oid, unique_index, pc, local, rows, seq,
                   now, resp, inserted>>

\* an agent node runs; its edge leads to END; an exception of the node leaves
\* graph.invoke before END is reached
AgentNode(env) ==
    /\ graph.node \in AgentNodes
    /\ LET out == make_agent_node(NodeTool[graph.node], env)
       IN  graph' = [graph EXCEPT !.node = IF out.exc = "" THEN END ELSE "raised",
                                  !.messages = IF out.exc = "" THEN Append(@, AIMessage(out.text))
                                               ELSE @,
                                  !.trace = Append(@, graph.node),
                                  !.responder = out,
                                  !.exc = out.exc]
    /\ UNCHANGED <<conn, router, routed, backend, docs, next_oid, unique_index, pc, local, rows, seq,
                   now, resp, inserted>>

\* run_agent_system: the messages of the final state, or the message of its except clause
run_agent_system(messages, exc) ==
    IF exc \in Exceptions \cup {"ValidationError"}
    THEN [result |-> <<AIMessage(Text("System error", <<exc>>))>>, exc |-> ""]
    ELSE [result |-> messages, exc |-> exc]

\* graph.invoke is over and run_agent_system returns
RunReturn ==
    /\ graph.node \in {END, "raised"}
    /\ LET r == run_agent_system(graph.messages, graph.exc)
       IN  routed' = [op |-> "run_agent_system", query |-> graph.query,
                      classify |-> graph.classify,
                      call |-> [result |-> r.result, exc |-> r.exc, trace |-> graph.trace,
                                label |-> graph.label, responder |-> graph.responder]]
    /\ graph' = IdleGraph
    /\ UNCHANGED <<conn, router, backend, docs, next_oid, unique_index, pc, local, rows, seq, now,
                   resp, inserted>>

----------------------------------------------------------------------------
(* Request orchestrator: POST /query of src/api/routes.py *)

\* the requests submitted: query texts with the outcomes of the external calls
OrchQueries ==
    {<<"A", "A", "P", "L", " ", "s", "t", "o", "c", "k", " ", "p", "r", "i", "c", "e">>}
OrchClassify ==
    {[reply |-> <<"S", "t", "o", "c", "k">>, exc |-> ""],
     [reply |-> <<"g", "e", "n", "e", "r", "a", "l">>, exc |-> ""],
     [reply |-> <<>>, exc |-> "APIError"]}
OrchEnvs ==
    {[key |-> TRUE, fetch |-> "ok", llm |-> "ok"],
     [key |-> TRUE, fetch |-> "Timeout", llm |-> "ok"]}
\* time.time() - start_time, in seconds
ExecutionTimes == {1}

\* the QueryResponse process_query returns; timestamp is datetime.now() at the return
QueryResponse(query_id, result, timestamp, execution_time) ==
    [query_id |-> query_id,
     query |-> result.query,
     agent |-> result.agent,
     response |-> result.response,
     timestamp |-> timestamp,
     execution_time |-> execution_time]

\* process_query answering a failed save_query with a success response
process_query_absorbs_failure(query, classify, env) ==
    /\ backend = "sqlite"
    /\ router = "supervisor_agent"
    /\ seq < MaxInserts
    /\ LET call == supervisor_agent(query, classify, env)
       IN  /\ routed' = [op |-> "supervisor_agent", query |-> query, classify |-> classify,
                         call |-> call]
           /\ \/ /\ call.exc = ""
                 /\ \E ts \in ClockReadings, execution_time \in ExecutionTimes :
                      \E returned \in {t \in {ts, ts + 1} : t <= StartSec + MaxTicks} :
                        LET req == [query |-> call.result.query,
                                    agent |-> call.result.agent,
                                    response |-> call.result.response,
                                    execution_time |-> execution_time,
                                    adjustments |-> None]
                            rowid == next_rowid(rows, seq)
                        IN  /\ rows' = rows \cup {new_row(req, rowid, ts)}
                            /\ seq' = rowid
                            /\ now' = returned
                            /\ resp' = Returned("submit", query,
                                          QueryResponse(rowid, call.result, returned,
                                                        execution_time))
                            /\ inserted' = Record(rowid, req)
              \/ /\ resp' = Returned("submit", query,
                               QueryResponse(0, call.result, now, 1))
                 /\ UNCHANGED <<rows, seq, now, inserted>>
    /\ UNCHANGED <<conn, router, graph, backend, docs, next_oid, unique_index, pc, local>>

\* process_query: supervisor_agent, then save_query of whatever it returned; an
\* exception of either becomes HTTPException(500), and get_db rolls back
process_query(query, classify, env) ==
    /\ backend = "sqlite"
    /\ router = "supervisor_agent"
    /\ seq < MaxInserts
    /\ LET call == supervisor_agent(query, classify, env)
       IN  /\ routed' = [op |-> "supervisor_agent", query |-> query, classify |-> classify,
                         call |-> call]
           /\ \/ /\ call.exc = ""
                 /\ \E ts \in ClockReadings, execution_time \in ExecutionTimes :
                      \E returned \in {t \in {ts, ts + 1} : t <= StartSec + MaxTicks} :
                        LET req == [query |-> call.result.query,
                                    agent |-> call.result.agent,
                                    response |-> call.result.response,
                                    execution_time |-> execution_time,
                                    adjustments |-> None]
                            rowid == next_rowid(rows, seq)
                        IN  /\ rows' = rows \cup {new_row(req, rowid, ts)}
                            /\ seq' = rowid
                            /\ now' = returned
                            /\ resp' = Returned("submit", query,
                                          QueryResponse(rowid, call.result, returned,
                                                        execution_time))
                            /\ inserted' = Record(rowid, req)
              \/ /\ resp' = Raised("submit", query, "HTTPException 500")
                 /\ UNCHANGED <<rows, seq, now, inserted>>
    /\ UNCHANGED <<conn, router, graph, backend, docs, next_oid, unique_index, pc, local>>

\* clear_history_endpoint without the test of confirm
clear_history_endpoint_unconfirmed(confirm) ==
    /\ backend = "sqlite"
    /\ rows' = {}
    /\ resp' = Returned("clearAll", confirm, Cardinality(rows))
    /\ inserted' = Forget(DOMAIN inserted)
    /\ UNCHANGED <<conn, router, routed, graph, backend, docs, next_oid, unique_index, pc, local,
                   seq, now>>

\* DELETE /history: rejected with 400 unless confirm is true; an exception of
\* clear_history (rolled back by get_db) becomes HTTPException(500)
clear_history_endpoint(confirm) ==
    /\ backend = "sqlite"
    /\ IF ~confirm
       THEN /\ resp' = Raised("clearAll", confirm, "HTTPException 400")
            /\ UNCHANGED <<rows, inserted>>
       ELSE \/ /\ rows' = {}
               /\ resp' = Returned("clearAll", confirm, Cardinality(rows))
               /\ inserted' = Forget(DOMAIN inserted)
            \/ /\ resp' = Raised("clearAll", confirm, "HTTPException 500")
               /\ UNCHANGED <<rows, inserted>>
    /\ UNCHANGED <<conn, router, routed, graph, backend, docs, next_oid, unique_index, pc, local,
                   seq, now>>

----------------------------------------------------------------------------
(* Specifications *)

\* ids given to getById and delete
MongoIds == SampleIds \cup {IdLo + 2}
SqliteIds == 1..(MaxInserts + 1)

Start ==
    /\ next_oid = 1
    /\ unique_index = init_mongo_indexes({})
    /\ pc = [p \in Procs |-> "idle"]
    /\ local = [p \in Procs |-> NoCaller]
    /\ rows = {}
    /\ seq = 0
    /\ now = StartSec
    /\ resp = Returned("start", None, None)
    /\ inserted = [i \in {} |-> None]
    /\ routed = NoRoute
    /\ graph = IdleGraph
    /\ conn = NoConnection

\* the store used by one caller at a time
Init ==
    /\ backend \in {"mongo", "sqlite"}
    /\ router = "supervisor_agent"
    /\ docs = {}
    /\ Start

Next ==
    \/ \E req \in Requests : save_query_document(req)
    \/ \E id \in MongoIds : get_query_document_by_id(id)
    \/ \E a \in ListArgs : GetQueryDocuments(a)
    \/ \E id \in MongoIds : delete_query_document(id)
    \/ clear_history_documents
    \/ \E req \in Requests : save_query(req)
    \/ \E id \in SqliteIds : get_query_by_id(id)
    \/ \E a \in ListArgs : GetQueryHistory(a)
    \/ \E id \in SqliteIds : delete_query(id)
    \/ clear_history

Spec == Init /\ [][Next]_vars

\* two callers of save_query_document at once, their database operations interleaved
RaceInit ==
    /\ backend = "mongo"
    /\ router = "supervisor_agent"
    /\ docs = {}
    /\ Start

RaceNext ==
    \/ \E p \in Procs : SaveCall(p)
    \/ \E p \in Procs : local[p].probes < MaxCollisions /\ GenerateCollide(p, SampleIds)
    \/ \E p \in Procs : GenerateReturn(p, SampleIds)
    \/ \E p \in Procs : InsertOneStep(p)
    \/ \E id \in SampleIds : delete_query_document(id)

RaceSpec == RaceInit /\ [][RaceNext]_vars

\* a collection that holds the ids of S already
Populated(S) ==
    {[_id |-> q - (IdHi + 1)] @@ new_document(CHOOSE r \in Requests : r.adjustments = None, q, StartSec) :
        q \in S}

\* the allocator with the whole range of random.randint, on a collection that is
\* full or has one or two ids left
AllocInit ==
    /\ backend = "mongo"
    /\ router = "supervisor_agent"
    /\ Start
    /\ docs \in {Populated(IdLo..IdHi), Populated((IdLo..IdHi) \ {IdHi}),
                Populated((IdLo..IdHi) \ {IdLo, IdHi})}

AllocNext ==
    \/ SaveCall("p1")
    \/ GenerateCollide("p1", IdLo..IdHi)
    \/ GenerateReturn("p1", IdLo..IdHi)
    \/ GenerateRaise("p1")
    \/ InsertOneStep("p1")

AllocSpec == AllocInit /\ [][AllocNext]_vars

\* route calls of both routers, the store left alone
RouterInit ==
    /\ backend = "sqlite"
    /\ router \in {"supervisor_agent", "graph"}
    /\ docs = {}
    /\ Start

RouterNext ==
    \/ \E query \in RouteQueries, classify \in ClassifyOutcomes, env \in ResponderEnvs :
         SupervisorAgent(query, classify, env)
    \/ \E query \in RouteQueries : RunAgentSystem(query)
    \/ \E classify \in ClassifyOutcomes : SupervisorNode(classify)
    \/ \E env \in NodeEnvs : AgentNode(env)
    \/ RunReturn

RouterSpec == RouterInit /\ [][RouterNext]_vars

\* the words the queries given to extract_symbol are made of
SymbolWords ==
    {<<"T", "e", "s", "l", "a">>,
     <<"M", "i", "c", "r", "o", "s", "o", "f", "t">>,
     <<"N", "V", "D", "A">>,
     <<"p", "r", "i", "c", "e">>,
     <<"a", "n", "a", "l", "y", "s", "i", "s">>,
     <<"o", "u", "t", "l", "o", "o", "k", "?">>}
MaxWords == 3

\* " ".join(words)
RECURSIVE JoinWords(_)
JoinWords(words) ==
    IF Len(words) = 1 THEN words[1]
    ELSE words[1] \o <<" ">> \o JoinWords(Tail(words))

SymbolQueries ==
    {JoinWords(ws) : ws \in UNION {[1..n -> SymbolWords] : n \in 1..MaxWords}}

\* one call of extract_symbol (a pure function: one call per behaviour)
ExtractSymbol(query) ==
    /\ routed = NoRoute
    /\ routed' = [op |-> "extract_symbol", query |-> query, result |-> extract_symbol(query)]
    /\ UNCHANGED <<conn, router, graph, backend, docs, next_oid, unique_index, pc, local,
                   rows, seq, now, resp, inserted>>

SymbolInit ==
    /\ backend = "sqlite"
    /\ router = "supervisor_agent"
    /\ docs = {}
    /\ Start

SymbolNext == \E query \in SymbolQueries : ExtractSymbol(query)

SymbolSpec == SymbolInit /\ [][SymbolNext]_vars

\* graph.invoke runs the nodes of a run one after the other without waiting for
\* anything but their own calls, and run_agent_system returns when it is over
RouterFairSpec ==
    /\ RouterSpec
    /\ WF_vars(\E classify \in ClassifyOutcomes : SupervisorNode(classify))
    /\ WF_vars(\E env \in NodeEnvs : AgentNode(env))
    /\ WF_vars(RunReturn)

\* the writing operations of the SQLite store, stage by stage, and a reader on a
\* connection of its own
TxInit ==
    /\ backend = "sqlite"
    /\ router = "supervisor_agent"
    /\ docs = {}
    /\ Start

TxNext ==
    \/ \E call \in WriteCalls : GetDbEnter(call)
    \/ GetDbBody
    \/ GetDbExit
    \/ \E id \in SqliteIds : get_query_by_id(id)

TxSpec == TxInit /\ [][TxNext]_vars

\* the HTTP surface over the direct router and the SQLite store
OrchInit ==
    /\ backend = "sqlite"
    /\ router = "supervisor_agent"
    /\ docs = {}
    /\ Start

OrchNext ==
    \/ \E query \in OrchQueries, classify \in OrchClassify, env \in OrchEnvs :
         process_query(query, classify, env)
    \/ \E id \in SqliteIds : get_query_by_id(id)
    \/ \E id \in SqliteIds : delete_query(id)
    \/ clear_history
    \/ \E confirm \in BOOLEAN : clear_history_endpoint(confirm)

OrchSpec == OrchInit /\ [][OrchNext]_vars

\* the requests of StatsNext: those of Requests and one whose agent is the empty string
StatsRequests ==
    Requests \cup
    { [query |-> <<"x">>, agent |-> "", response |-> "r3",
       execution_time |-> 1, adjustments |-> None] }

\* inserts, deletes, clears, point lookups and statistics of one caller at a time
StatsNext ==
    \/ \E req \in StatsRequests : save_query_document(req)
    \/ \E id \in MongoIds : get_query_document_by_id(id)
    \/ \E id \in MongoIds : delete_query_document(id)
    \/ clear_history_documents
    \/ GetStatisticsDocuments
    \/ \E req \in StatsRequests : save_query(req)
    \/ \E id \in SqliteIds : get_query_by_id(id)
    \/ \E id \in SqliteIds : delete_query(id)
    \/ clear_history
    \/ GetStatistics

StatsSpec == Init /\ [][StatsNext]_vars

----------------------------------------------------------------------------
(* Properties *)

\* the live records of the store in use
Live == IF backend = "mongo" THEN docs ELSE rows

IsList == resp.op = "list" /\ resp.err = ""
Items == resp.result.items
NumItems == Cardinality(DOMAIN Items)

\* the filter of the store in use
Matches(r, agent_filter, search) ==
    IF backend = "mongo" THEN MongoMatches(r, agent_filter, search)
    ELSE SqliteMatches(r, agent_filter, search)

\* C1: after any sequence of insert, delete and clear by one caller at a time, no
\* two live records of the store have the same id
C1_UniqueIds ==
    /\ \A d1, d2 \in docs : d1.query_id = d2.query_id => d1 = d2
    /\ \A r1, r2 \in rows : r1.query_id = r2.query_id => r1 = r2

\* an insert returned while another record was live, after a delete
C1_Witness ==
    /\ resp.op = "insert" /\ resp.err = ""
    /\ Cardinality(Live) = 2
    /\ \/ backend = "mongo" /\ next_oid > 2
       \/ backend = "sqlite" /\ seq >= 2

C3_DuplicateKeyRetried ==
    ~(resp.op = "insert" /\ resp.err = "DuplicateKeyError")

\* C4: the allocator makes at most 50 probes; it leaves its loop without an id only
\* by raising the exhausted error after the 50th probe, which is what happens on
\* the full collection; an id it returns is in 100..999 and in no document
C4_StateInv ==
    \A p \in Procs :
        /\ local[p].probes <= MaxAttempts
        /\ pc[p] = "insert_one" =>
             /\ local[p].doc[1].query_id \in IdLo..IdHi
             /\ find_query_id(docs, local[p].doc[1].query_id) = {}
             /\ FreeCandidates(docs, IdLo..IdHi) # {}

C4_StepInv ==
    \A p \in Procs :
        (pc[p] = "generate" /\ pc'[p] = "idle") =>
            /\ local[p].probes = MaxAttempts
            /\ resp'.op = "insert" /\ resp'.err = "RuntimeError"
            /\ docs' = docs

C4_AllocateBounded == [](C4_StateInv) /\ [][C4_StepInv]_vars

\* the allocator has failed on the full collection
C4_Witness ==
    /\ resp.op = "insert" /\ resp.err = "RuntimeError"
    /\ FreeCandidates(docs, IdLo..IdHi) = {}

\* C5: getById of an id that insert returned, with no delete or clear since,
\* returns a record with the query, agent, response, execution time and (where
\* insert takes them) adjustments given to that insert
C5_GetByIdReturnsInserted ==
    (resp.op = "getById" /\ resp.args \in DOMAIN inserted) =>
        /\ resp.err = ""
        /\ resp.result # None
        /\ LET r == resp.result[1]
               g == inserted[resp.args]
           IN  /\ r.query = g.query
               /\ r.agent = g.agent
               /\ r.response = g.response
               /\ r.execution_time = g.execution_time
               /\ backend = "mongo" => r.adjustments = g.adjustments

\* getById has returned a record inserted with adjustments
C5_Witness ==
    /\ resp.op = "getById" /\ resp.args \in DOMAIN inserted
    /\ backend = "mongo"
    /\ resp.result[1].adjustments = <<"adj">>

\* C6: a record returned by getById or list carries the id insert returned for it
C6_ExposedIdIsInsertId ==
    /\ (resp.op = "getById" /\ resp.err = "" /\ resp.result # None) =>
          resp.result[1].query_id = PyInt(resp.args)
    /\ IsList =>
          \A i \in DOMAIN Items :
              \E id \in DOMAIN inserted :
                  /\ Items[i].query_id = PyInt(id)
                  /\ Items[i].query = inserted[id].query
                  /\ Items[i].response = inserted[id].response

C8_SearchLiteralSubstring ==
    (IsList /\ resp.args.search # None /\ ~TruthyName(resp.args.agent_filter)) =>
        /\ \A i \in DOMAIN Items : ContainsCI(resp.args.search[1], Items[i].query)
        /\ resp.result.total =
             Cardinality({r \in Live : ContainsCI(resp.args.search[1], r.query)})

\* C9: list with no filter returns its items newest first
C9_NewestFirst ==
    (IsList /\ resp.args.agent_filter = None /\ resp.args.search = None) =>
        \A i \in DOMAIN Items :
            (i + 1) \in DOMAIN Items => Items[i].timestamp >= Items[i + 1].timestamp

\* an unfiltered list has returned two records of different times
C9_Witness ==
    /\ IsList /\ resp.args.agent_filter = None /\ resp.args.search = None
    /\ NumItems = 2
    /\ Items[1].timestamp > Items[2].timestamp

MatchCount == Cardinality({r \in Live : Matches(r, resp.args.agent_filter, resp.args.search)})

\* C10 as stated: for any limit and offset a list that returns has at most limit
\* items; for an offset at or beyond the matching records it returns, without
\* error, an empty page and the number of matching records as total
C10_AnyLimitOffset ==
    resp.op = "list" =>
        /\ resp.err = "" => NumItems <= resp.args.limit
        /\ resp.args.offset >= MatchCount =>
             /\ resp.err = ""
             /\ NumItems = 0
             /\ resp.result.total = MatchCount

\* C10 amended: the same for any limit >= 1
C10_PositiveLimit ==
    (resp.op = "list" /\ resp.args.limit >= 1) =>
        /\ resp.err = "" => NumItems <= resp.args.limit
        /\ resp.args.offset >= MatchCount =>
             /\ resp.err = ""
             /\ NumItems = 0
             /\ resp.result.total = MatchCount

\* a list of a store with records has returned an empty page for an offset at
\* their number
C10_Witness ==
    /\ resp.op = "list" /\ resp.args.limit >= 1
    /\ MatchCount > 0
    /\ resp.args.offset >= MatchCount
    /\ NumItems = 0
    /\ resp.result.total = MatchCount

\* the number of live records whose agent is a
CountByAgent(a) == Cardinality({r \in Live : r.agent = a})

C12_ClearThenStatistics ==
    [][ /\ resp'.op = "clear" =>
              /\ resp'.err = ""
              /\ resp'.result = Cardinality(Live)
              /\ Live' = {}
        /\ (resp.op = "clear" /\ resp'.op = "statistics") =>
              /\ resp'.err = ""
              /\ resp'.result.total_queries = 0
              /\ resp'.result.avg_execution_time = 0
              /\ resp'.result.last_query_time = None ]_vars

\* a clear has removed two records
C12_Witness ==
    /\ resp.op = "clear" /\ resp.err = ""
    /\ resp.result = 2
    /\ Live = {}

\* C13: delete of the id of a live record returns true and removes the record, so
\* that getById of that id then reports not found; a delete of an id that is not
\* live, such as a second delete of the same id, returns false and raises nothing
C13_DeleteTwice ==
    [][ /\ resp'.op = "delete" =>
              /\ resp'.err = ""
              /\ resp'.result = (\E r \in Live : r.query_id = resp'.args)
              /\ \A r \in Live' : r.query_id # resp'.args
        /\ (resp.op = "delete" /\ resp'.op = "getById" /\ resp'.args = resp.args) =>
              /\ resp'.err = ""
              /\ resp'.result = None
        /\ (resp.op = "delete" /\ resp'.op = "delete" /\ resp'.args = resp.args) =>
              /\ resp'.err = ""
              /\ resp'.result = FALSE ]_vars

\* a delete has removed one of two live records
C13_Witness ==
    /\ resp.op = "delete" /\ resp.err = ""
    /\ resp.result = TRUE
    /\ Cardinality(Live) = 1
    /\ \A r \in Live : r.query_id # resp.args

\* a route call of either router has returned
IsRouted == routed.op \in {"supervisor_agent", "run_agent_system"}
ClassifyFailed == routed.classify.exc \in Exceptions
ClassifyReplied == routed.classify.exc = ""

FourAgents == {"News Agent", "Market Research Agent", "Stock Analyst", "General Assistant"}

\* the domain of each responder function and agent node
DomainOf == [news_agent |-> "news", market_agent |-> "market",
             market_research_agent |-> "market", stock_agent |-> "stock",
             general_agent |-> "general"]

\* the responder the route call dispatched to ("" when it dispatched to none)
Dispatched == IF Len(routed.call.trace) >= 2 THEN routed.call.trace[2] ELSE ""

\* w occurs in the trimmed, lowercased reply of the classification call
InReply(w) == Contains(w, LowerStr(Strip(routed.classify.reply)))

KeywordFallback(q) ==
    IF ContainsAny(NewsKeywords, q) THEN "news"
    ELSE IF ContainsAny(MarketKeywords, q) THEN "market"
    ELSE IF ContainsAny(StockKeywords, q) THEN "stock"
    ELSE "general"

\* C15: when the normalized reply contains none of news, market, stock, the route
\* call dispatches to the responder the keyword fallback on the lowercased query
\* selects, which is the General responder only if no keyword set matches
C15_KeywordFallback ==
    (IsRouted /\ ClassifyReplied
        /\ ~InReply(<<"n", "e", "w", "s">>) /\ ~InReply(<<"m", "a", "r", "k", "e", "t">>) /\ ~InReply(<<"s", "t", "o", "c", "k">>)) =>
        /\ Dispatched # ""
        /\ DomainOf[Dispatched] = KeywordFallback(LowerStr(routed.query))

\* C16: when the classification call fails the route call does not end in an
\* error: it dispatches to a responder chosen from the keywords of the query, for
\* "AAPL stock price" the Stock responder, whose agent name it returns
C16_ClassifyFailureFallsBack ==
    (IsRouted /\ ClassifyFailed) =>
        /\ Dispatched # ""
        /\ routed.op = "supervisor_agent" => routed.call.result.agent # "Error"
        /\ routed.query = <<"A", "A", "P", "L", " ", "s", "t", "o", "c", "k", " ", "p", "r", "i", "c", "e">> =>
             /\ DomainOf[Dispatched] = "stock"
             /\ routed.op = "supervisor_agent" => routed.call.result.agent = "Stock Analyst"

\* the label the claim gives a reply: news before market before stock, "" for
\* a reply that falls through
ClaimedLabel ==
    IF InReply(<<"n", "e", "w", "s">>) THEN "news"
    ELSE IF InReply(<<"m", "a", "r", "k", "e", "t">>) THEN "market"
    ELSE IF InReply(<<"s", "t", "o", "c", "k">>) THEN "stock"
    ELSE ""

\* the same, with the further substrings the graph router takes as market and stock
LabelWithSynonyms ==
    IF InReply(<<"n", "e", "w", "s">>) THEN "news"
    ELSE IF \/ InReply(<<"m", "a", "r", "k", "e", "t">>)
            \/ routed.op = "run_agent_system" /\ (InReply(<<"p", "r", "o", "d", "u", "c", "t">>) \/ InReply(<<"i", "p", "h", "o", "n", "e">>))
    THEN "market"
    ELSE IF InReply(<<"s", "t", "o", "c", "k">>) \/ (routed.op = "run_agent_system" /\ InReply(<<"a", "a", "p", "l">>))
    THEN "stock"
    ELSE ""

AgentOfLabel == [news |-> "News Agent", market |-> "Market Research Agent", stock |-> "Stock Analyst"]

\* the route call took the branch of label l: it dispatched to the responder of l,
\* or (l = "") none of the label tests selected a responder
TookLabel(l) ==
    /\ routed.call.label = l
    /\ l # "" =>
         /\ Dispatched # ""
         /\ DomainOf[Dispatched] = l
         /\ routed.op = "supervisor_agent" => routed.call.result.agent = AgentOfLabel[l]

\* C17 as stated: the trimmed, lowercased reply is matched against news, market,
\* stock in that order, and any other reply falls through
C17_LabelPriority ==
    (IsRouted /\ ClassifyReplied) => TookLabel(ClaimedLabel)

\* C17 amended: the same, where the graph router also takes a reply containing
\* product or iphone as market and one containing aapl as stock
C17_LabelPriorityWithSynonyms ==
    (IsRouted /\ ClassifyReplied) => TookLabel(LabelWithSynonyms)

\* a reply that contains all three labels has been dispatched to the News responder
C17_Witness ==
    /\ routed.op = "supervisor_agent"
    /\ ClassifyReplied
    /\ InReply(<<"n", "e", "w", "s">>) /\ InReply(<<"m", "a", "r", "k", "e", "t">>) /\ InReply(<<"s", "t", "o", "c", "k">>)
    /\ routed.call.result.agent = "News Agent"
    /\ Dispatched = "news_agent"

\* C18: a route call makes exactly one classification call and then calls exactly
\* one responder, nothing twice
C18_OneClassifyOneResponder ==
    IsRouted =>
        /\ Len(routed.call.trace) = 2
        /\ routed.call.trace[1] = "classify"
        /\ routed.call.trace[2] \in Responders \cup AgentNodes

\* C19: a responder that was called returned a text and raised nothing, whatever
\* its data fetch and its language-model call did
C19_RespondersTotal ==
    (IsRouted /\ Dispatched # "") =>
        /\ routed.call.responder.exc = ""
        /\ routed.call.responder.text.kind # ""

\* C20: every record the request orchestrator has stored has one of the four
\* fixed agent names; none has another agent, such as 'Error'
C20_PersistedAgentIsFixedName ==
    \A r \in rows : r.agent \in FourAgents

\* C21: a clear-all request whose confirm flag is not true is rejected with status
\* 400 and leaves the rows as they are; the rows are cleared by a clear-all request
\* only when confirm is true
C21_ClearAllNeedsConfirm ==
    [][ resp'.op = "clearAll" =>
          /\ resp'.args = FALSE =>
               /\ resp'.err = "HTTPException 400"
               /\ rows' = rows
          /\ (rows' # rows \/ resp'.err = "") => resp'.args = TRUE ]_vars

\* a clear-all request without confirmation has been rejected on a store with records
C21_Witness ==
    /\ resp.op = "clearAll"
    /\ resp.args = FALSE
    /\ resp.err = "HTTPException 400"
    /\ rows # {}

\* C22: the response of a successful submit-query request equals, field by field
\* (id and timestamp included), what getById returns for the returned id right afterwards
C22_SubmitReturnsPersisted ==
    [][ ( /\ resp.op = "submit"
          /\ resp.err = ""
          /\ resp'.op = "getById"
          /\ resp'.args = resp.result.query_id )
        => resp'.result = Some([resp.result EXCEPT !.query_id = PyInt(@)]) ]_vars

\* C23: a submit-query request either fails with an error response, and then no row
\* is stored and no query id is returned, or succeeds, and then the row with the
\* returned id has been stored by it; it never succeeds without its row
C23_InsertFailurePropagates ==
    [][ resp'.op = "submit" =>
          IF resp'.err = ""
          THEN \E row \in rows' \ rows : /\ row.query_id = resp'.result.query_id
                                         /\ rows' = rows \cup {row}
          ELSE /\ resp'.err = "HTTPException 500"
               /\ resp'.result = None
               /\ rows' = rows
               /\ seq' = seq ]_vars

\* the router returned a result and the request still ended in an error response:
\* the failure was the store's
C23_Witness ==
    /\ resp.op = "submit"
    /\ resp.err = "HTTPException 500"
    /\ routed.op = "supervisor_agent"
    /\ routed.call.exc = ""

\* the instant a live record was stamped with: the datetime of a document, the
\* seconds a row's text stands for
Stamp(r) == IF backend = "mongo" THEN r.timestamp ELSE 10 * r.timestamp[1] + r.timestamp[2]

\* the order of insertion: _id in a collection, the rowid in the table
InsertionRank(r) == IF backend = "mongo" THEN r._id ELSE r.query_id

\* the live record inserted last
Newest == CHOOSE r \in Live : \A o \in Live : InsertionRank(o) <= InsertionRank(r)

\* C24: when statistics has just returned, its last_query_time is absent exactly when
\* the store is empty, and otherwise it is the timestamp of the live record inserted
\* last, which no live record's timestamp exceeds
C24_LastQueryTime ==
    resp.op = "statistics" =>
        /\ resp.result.last_query_time = None <=> Live = {}
        /\ Live # {} =>
             /\ resp.result.last_query_time = Some(Stamp(Newest))
             /\ \A r \in Live : Stamp(r) <= resp.result.last_query_time[1]

\* statistics returned on a store whose two live records have different timestamps
C24_Witness ==
    /\ resp.op = "statistics"
    /\ \E r, o \in Live : Stamp(r) < Stamp(o)
    /\ resp.result.last_query_time # None

\* C25: no store operation changes a live record: an insert only adds one record and
\* keeps every other as it is, delete(id) removes only records with that id, and the
\* reads (getById, statistics) leave the store as it is
C25_RecordsImmutable ==
    [][ /\ resp'.op = "insert" => /\ Live \subseteq Live'
                                  /\ Cardinality(Live' \ Live) <= 1
        /\ resp'.op = "delete" => /\ Live' \subseteq Live
                                  /\ \A r \in Live \ Live' : r.query_id = resp'.args
        /\ resp'.op \in {"getById", "statistics"} => Live' = Live
        /\ resp'.op = "clear" => Live' = {} ]_vars

\* a second record has been inserted next to a live one, and a delete has then
\* removed the older of the two
C25_Witness ==
    /\ resp.op = "delete"
    /\ resp.result = TRUE
    /\ \E r \in Live : /\ InsertionRank(r) = 2
                       /\ r.query_id # resp.args

\* the entries of the lookup table whose company name is a word of the upper-cased query
NamedCompanies(query) ==
    LET words == Split(UpperStr(query))
    IN  {t \in common_tickers : \E i \in 1..Len(words) : words[i] = t[1]}

\* a word of the query has the shape of a ticker symbol
HasTickerWord(query) ==
    LET words == Split(UpperStr(query))
    IN  \E i \in 1..Len(words) : /\ Len(words[i]) <= MaxTickerLen
                                 /\ IsAlnum(RemoveDots(words[i]))

\* the words of the query that are tickers of the lookup table
NamedTickers(query) ==
    LET words == Split(UpperStr(query))
    IN  {t[2] : t \in {u \in common_tickers : \E i \in 1..Len(words) : words[i] = u[2]}}

\* C26: extract_symbol returns the ticker of a company the query names, wherever the
\* name stands in the query (or a ticker of the table the query spells out), and the
\* fallback ticker AAPL when no word of the query is in the lookup table or is a
\* ticker symbol
C26_ExtractSymbol ==
    routed.op = "extract_symbol" =>
        /\ NamedCompanies(routed.query) # {} =>
             routed.result \in {t[2] : t \in NamedCompanies(routed.query)}
                               \cup NamedTickers(routed.query)
        /\ (NamedCompanies(routed.query) = {} /\ ~HasTickerWord(routed.query)) =>
             routed.result = DefaultTicker

\* C27: a run of the graph workflow enters the supervisor node only at its start,
\* goes from the supervisor to one agent node or to END, goes from an agent node to
\* END only, and every run that has started reaches END
C27_GraphRunReachesEnd ==
    /\ [][ /\ (graph'.node = "supervisor" /\ graph' # graph) => graph.node = "idle"
           /\ (graph.node = "supervisor" /\ graph' # graph) =>
                graph'.node \in AgentNodes \cup {END}
           /\ (graph.node \in AgentNodes /\ graph' # graph) => graph'.node = END ]_vars
    /\ (graph.node = "supervisor") ~> (graph.node = END)

\* the ids of the records on the page list has just returned
PageIds == {Items[i].query_id : i \in DOMAIN Items}

\* C28: when list(limit=k, offset=o) is followed by list(limit=k, offset=o+k) with the
\* same filters and k >= 1, the two pages have no record in common, and for o = 0 and
\* at most 2k matching records they contain every matching record between them
C28_PagesPartition ==
    [][ ( /\ IsList /\ IsList'
          /\ resp.args.limit >= 1
          /\ resp'.args.limit = resp.args.limit
          /\ resp.args.offset >= 0
          /\ resp'.args.offset = resp.args.offset + resp.args.limit
          /\ resp'.args.agent_filter = resp.args.agent_filter
          /\ resp'.args.search = resp.args.search )
        => /\ PageIds \cap PageIds' = {}
           /\ (resp.args.offset = 0 /\ resp.result.total <= 2 * resp.args.limit) =>
                Cardinality(PageIds \cup PageIds') = resp.result.total ]_vars

\* C29: in the SQLite store every insert returns an id greater than every id handed
\* out before it (sqlite_sequence holds the greatest of them), deleted and cleared
\* ones included, and greater than the id of every row in the table
C29_RowidsIncrease ==
    [][ (backend = "sqlite" /\ resp'.op = "insert" /\ rows' # rows) =>
          /\ resp'.result > seq
          /\ seq' = resp'.result
          /\ \A r \in rows : r.query_id < resp'.result
          /\ \A id \in DOMAIN inserted : id < resp'.result ]_vars

\* an insert into a table emptied by delete or clear has returned an id greater than 1
C29_Witness ==
    /\ backend = "sqlite"
    /\ resp.op = "insert"
    /\ resp.result = 2
    /\ Cardinality(rows) = 1

\* C30: the stored rows (and the key sequence) change only when a get_db context
\* whose body and commit raised nothing is left, and then become what the body made
\* of them; when the body or the commit raised, leaving the context closes the
\* connection, re-raises the exception and leaves the rows as they were
C30_RollbackOnException ==
    [][ /\ (rows' # rows \/ seq' # seq) =>
             /\ conn.state = "open" /\ conn.exc = ""
             /\ resp'.err = ""
             /\ rows' = conn.table
        /\ (conn.state = "open" /\ conn'.state = "closed") =>
             IF conn.exc # "" \/ resp'.err # ""
             THEN /\ resp' = Raised(conn.op, conn.args, conn'.exc)
                  /\ conn'.exc # ""
                  /\ rows' = rows /\ seq' = seq
             ELSE /\ resp' = Returned(conn.op, conn.args, conn.result)
                  /\ rows' = conn.table ]_vars

\* an operation that had changed rows inside its transaction has raised, and the
\* stored rows are not the changed ones
C30_Witness ==
    /\ conn # NoConnection
    /\ conn.state = "closed"
    /\ conn.exc # ""
    /\ resp.err = conn.exc
    /\ conn.table # rows
    /\ rows # {}

====
